---- MODULE Spec2Model ----
(***************************************************************************)
(* A state-machine model of the SaveDisk.space compression API             *)
(* (server.js): the multer intake, the image and PDF upload handlers, the  *)
(* preview / download file server, the image-info and health endpoints,   *)
(* the error middleware and the quality policy.                            *)
(*                                                                         *)
(* A handler is cut into actions at the points where it touches state      *)
(* shared between requests: the clock (Date.now), the write of the output  *)
(* file and the fs.stat / fs.access probes.  The code between two such     *)
(* points reads and writes only the request's own locals, so it is folded  *)
(* into the action that follows it.                                        *)
(*                                                                         *)
(* The same module holds the browser side (App.tsx, ImageTools.tsx,        *)
(* PDFTools.tsx and the pdf/ components): the useState values of the       *)
(* mounted component and its pending callbacks.  Spec and LiveSpec run the *)
(* server with the browser at rest, BrowserSpec and BrowserLiveSpec the    *)
(* browser with the server at rest.                                        *)
(***************************************************************************)
EXTENDS Integers, Sequences, FiniteSets, TLC

(***************************************************************************)
(* Bounds of the model.                                                    *)
(***************************************************************************)
MaxReqs == 2
MaxClock == 2
MaxSize == 3
\* Files selected, and operations started, in one mounting of a component
MaxFiles == 2
MaxOps == 2

(***************************************************************************)
(* Program constants.                                                      *)
(***************************************************************************)
\* multer limits.fileSize: 50 * 1024 * 1024
FileSizeLimit == 52428800
\* pipeline.png({ compressionLevel: 9 })
PngCompressionLevel == 9

(***************************************************************************)
(* JavaScript values: a tag and a payload.                                 *)
(***************************************************************************)
Undefined == <<"undefined">>
Num(n) == <<"number", n>>
Str(s) == <<"string", s>>
Obj(r) == <<"object", r>>
\* A member inherited from Object.prototype (a function, or the prototype itself)
Inherited(k) == <<"inherited", k>>

Truthy(v) ==
    \/ v[1] \in {"object", "inherited"}
    \/ v[1] = "number" /\ v[2] # 0
    \/ v[1] = "string" /\ v[2] # ""

\* a || b
OrElse(a, b) == IF Truthy(a) THEN a ELSE b

\* Property names every plain object inherits from Object.prototype
ObjectPrototypeKeys == {"constructor", "toString", "valueOf", "hasOwnProperty", "__proto__"}

\* obj[key] for a plain object literal, given as a function from its own keys
Lookup(obj, key) ==
    IF key \in DOMAIN obj THEN obj[key]
    ELSE IF key \in ObjectPrototypeKeys THEN Inherited(key)
    ELSE Undefined

\* v.name as destructuring reads it: the own property of an object literal,
\* undefined on a function or on Object.prototype
Prop(v, name) ==
    IF v[1] = "object" /\ name \in DOMAIN v[2] THEN v[2][name] ELSE Undefined

(***************************************************************************)
(* Configuration tables of server.js.                                      *)
(***************************************************************************)
\* extMap with every type mapped to jpg (the README's "always JPEG")
extMapAllJpg == [m \in {"image/jpeg", "image/png", "image/webp"} |-> Str("jpg")]

\* extMap with the png entry mistyped
extMapPngAsJpg ==
    [m \in {"image/jpeg", "image/png", "image/webp"} |->
        IF m = "image/webp" THEN Str("webp") ELSE Str("jpg")]

extMap ==
    [m \in {"image/jpeg", "image/png", "image/webp"} |->
        CASE m = "image/jpeg" -> Str("jpg")
          [] m = "image/png" -> Str("png")
          [] m = "image/webp" -> Str("webp")]

allowedTypes == {"image/jpeg", "image/jpg", "image/png", "image/webp", "application/pdf"}

qualityMap ==
    [l \in {"low", "medium", "high"} |->
        CASE l = "low" -> Obj([quality |-> Num(90), description |-> Str("Minimal compression, best quality")])
          [] l = "medium" -> Obj([quality |-> Num(75), description |-> Str("Balanced compression and quality")])
          [] l = "high" -> Obj([quality |-> Num(60), description |-> Str("Maximum compression, smaller files")])]

getQualitySettings(level) == OrElse(Lookup(qualityMap, level), qualityMap["medium"])

\* const level = req.query.level || 'medium'   (an absent level is "")
QueryLevel(q) == IF q # "" THEN q ELSE "medium"

(***************************************************************************)
(* File names and paths.  A name is a sequence of tokens, a path a         *)
(* sequence of names.                                                      *)
(***************************************************************************)
\* A name built from a clock of half the resolution
FileNameCoarse(ts, ext) == <<"compressed_", ToString(ts \div 2), ".", ext>>

\* `compressed_${timestamp}.${extension}`
FileName(ts, ext) == <<"compressed_", ToString(ts), ".", ext>>

ToLowerCase(tok) ==
    CASE tok = "PNG" -> "png"
      [] tok = "JPG" -> "jpg"
      [] OTHER -> tok

\* path.extname of a name: from its last "." on, "" when there is none or
\* when the name starts with it
ExtName(name) ==
    LET dots == {i \in 1..Len(name) : name[i] = "."}
    IN  IF dots = {} \/ dots = {1} THEN <<>>
        ELSE LET d == CHOOSE i \in dots : \A j \in dots : j <= i
             IN  SubSeq(name, d, Len(name))

LowerName(name) == [i \in 1..Len(name) |-> ToLowerCase(name[i])]

AppDir == <<<<"app">>>>
UploadsDir == AppDir \o <<<<"uploads">>>>
DotDot == <<"..">>
ServerJs == <<"server", ".", "js">>

RECURSIVE Normalize(_, _)
\* path.join's normalisation: ".." removes the segment before it
Normalize(done, rest) ==
    IF rest = <<>> THEN done
    ELSE IF Head(rest) = DotDot
         THEN Normalize(IF done = <<>> THEN done ELSE SubSeq(done, 1, Len(done) - 1), Tail(rest))
         ELSE Normalize(Append(done, Head(rest)), Tail(rest))

\* path.join(dir, ...segments)
PathJoin(dir, segs) == Normalize(<<>>, dir \o segs)

(***************************************************************************)
(* State.                                                                  *)
(***************************************************************************)
VARIABLES
    reqs,   \* request id -> the request: its input, the handler's locals, its response
    disk,   \* the files on disk: path -> [size, fmt, by]
    clock,  \* the last value Date.now() returned (0: not read yet)
    route,      \* the route the browser shows: its component is the mounted one
    pdfTools,   \* the PDFTools component: its state and its pending callbacks
    imageTools  \* the ImageTools component: its state and its pending callbacks

server == <<reqs, disk, clock>>
browser == <<route, pdfTools, imageTools>>
vars == <<reqs, disk, clock, route, pdfTools, imageTools>>

Reqs == 1..MaxReqs

Mimes == allowedTypes \cup {"image/gif"}
Levels == {"", "low", "medium", "high", "ultra", "constructor"}
OverSize == FileSizeLimit + 1

NoEnc == [fmt |-> "none", opt |-> "none", val |-> Undefined]

NoResp ==
    [status |-> 0, error |-> "", filename |-> <<>>,
     originalSize |-> 0, compressedSize |-> 0, savingsPercent |-> Undefined,
     compressionLevel |-> "", compressionDescription |-> Undefined,
     originalFormat |-> "", outputFormat |-> "",
     contentType |-> "", cacheControl |-> "", disposition |-> <<>>, sent |-> <<>>]

\* res.status(status).json({ error, message })
ErrorResp(status, error) == [NoResp EXCEPT !.status = status, !.error = error]

NoFile == [file |-> FALSE, field |-> "", mime |-> "", size |-> 0, level |-> ""]

IdleReq ==
    [pc |-> "idle", ep |-> "", in |-> NoFile, param |-> <<>>,
     ts |-> 0, filename |-> <<>>, extension |-> Undefined, quality |-> Undefined,
     probe |-> "none", enc |-> NoEnc, loaded |-> FALSE, saveOpts |-> {},
     wrote |-> FALSE, wroteSize |-> 0, stat |-> "none", responses |-> 0, resp |-> NoResp]

\* A file part of a multipart body
File(field, mime, size, level) ==
    [file |-> TRUE, field |-> field, mime |-> mime, size |-> size, level |-> level]

\* The requests a client sends to an upload endpoint whose file field is
\* fieldName: no file; a file in another field; a file of every type, within
\* and over the size limit; and, for the types the handler goes on to
\* process, every level and every size (first type) and another level
\* (the other types).
UploadInputs(fieldName, first, others) ==
    {NoFile}
    \cup {File("other", first, 1, "")}
    \cup {File(fieldName, m, s, "") : m \in Mimes, s \in {1, OverSize}}
    \cup {File(fieldName, first, 1, l) : l \in Levels}
    \cup {File(fieldName, first, s, "") : s \in 0..MaxSize}
    \cup {File(fieldName, m, 1, "high") : m \in others}

ImageInputs == UploadInputs("image", "image/jpeg", {"image/png", "image/webp"})
PdfInputs == UploadInputs("pdf", "application/pdf", {})
InfoInputs ==
    {NoFile} \cup {File("image", m, s, "") : m \in {"image/png", "image/gif"}, s \in {1, OverSize}}

(***************************************************************************)
(* multer: upload.single(fieldName) with limits.fileSize and fileFilter.   *)
(* The field is checked first, then the fileFilter, and the size limit     *)
(* fires while the admitted file is read.                                  *)
(***************************************************************************)
\* fileFilter: cb(new Error(...), false) or cb(null, true)
fileFilter(in) == IF in.mime \notin allowedTypes THEN "Error" ELSE "ok"

Multer(in, fieldName) ==
    IF ~in.file THEN "nofile"
    ELSE IF in.field # fieldName THEN "LIMIT_UNEXPECTED_FILE"
    ELSE IF fileFilter(in) # "ok" THEN fileFilter(in)
    ELSE IF in.size > FileSizeLimit THEN "LIMIT_FILE_SIZE"
    ELSE "ok"

\* app.use((error, req, res, next) => ...)
ErrorMiddleware(err) ==
    IF err \in {"LIMIT_FILE_SIZE", "LIMIT_UNEXPECTED_FILE"}
    THEN IF err = "LIMIT_FILE_SIZE"
         THEN ErrorResp(400, "File too large")
         ELSE ErrorResp(400, "Upload error")
    ELSE ErrorResp(500, "Internal server error")

\* app.use('*', ...)
NotFoundHandler == ErrorResp(404, "Not found")

\* The handler returns without having sent a response
FinishSilent(r, rq, resp) ==
    reqs' = [reqs EXCEPT ![r] =
        [rq EXCEPT !.pc = "done",
                   !.ts = 0, !.filename = <<>>, !.extension = Undefined, !.quality = Undefined]]

\* The response is sent and the handler returns: its locals are gone
Finish(r, rq, resp) ==
    reqs' = [reqs EXCEPT ![r] =
        [rq EXCEPT !.pc = "done", !.resp = resp, !.responses = rq.responses + 1,
                   !.ts = 0, !.filename = <<>>, !.extension = Undefined, !.quality = Undefined]]

\* Requests are numbered in the order they arrive
MayArrive(r) == reqs[r].pc = "idle" /\ (IF r = 1 THEN TRUE ELSE reqs[r - 1].pc # "idle")

\* A write that first clears the directory it writes to
WriteEvicting(d, path, f) ==
    [p \in {q \in DOMAIN d : SubSeq(q, 1, Len(q) - 1) # SubSeq(path, 1, Len(path) - 1)} \cup {path} |->
        IF p = path THEN f ELSE d[p]]

\* The disk after path was written: the other files stay as they are
Write(d, path, f) == [p \in DOMAIN d \cup {path} |-> IF p = path THEN f ELSE d[p]]

(***************************************************************************)
(* The browser: App.tsx mounts one component per route.  A component is    *)
(* its useState values together with what it has left pending: the files   *)
(* whose reading has not settled (loading), the operations whose completion*)
(* has not run (ops) and the intervals not yet cleared (intervals).        *)
(***************************************************************************)
Null == <<"null">>

\* const [uploadedPDF, ...] ... const [processedFile, ...] = useState(...)
PDFToolsInit ==
    [uploadedPDF |-> Null, isProcessing |-> FALSE, progress |-> 0,
     processingType |-> "null", processedFile |-> Null,
     loading |-> {}, ops |-> {}, intervals |-> {}, files |-> 0, started |-> 0]

\* const [uploadedFile, ...] ... const [compressionSavings, ...] = useState(...)
ImageToolsInit ==
    [uploadedFile |-> Null, isProcessing |-> FALSE, progress |-> 0,
     compressionLevel |-> "medium", compressedFile |-> Null,
     loading |-> {}, ops |-> {}, intervals |-> {}, files |-> 0, started |-> 0]

ServerInit ==
    /\ reqs = [r \in Reqs |-> IdleReq]
    /\ disk = [p \in {AppDir \o <<ServerJs>>} |-> [size |-> 1, fmt |-> "js", by |-> 0, whole |-> TRUE]]
    /\ clock = 0

BrowserInit ==
    /\ route = "/"
    /\ pdfTools = PDFToolsInit
    /\ imageTools = ImageToolsInit

Init == ServerInit /\ BrowserInit

\* Date.now(): time does not run backwards, and how far it has advanced
\* since the last reading is up to the environment
DateNow == {t \in 1..MaxClock : t >= clock}

\* The file a write leaves behind when it fails after the output was opened
Truncated(fmt, r) == [size |-> 0, fmt |-> fmt, by |-> r, whole |-> FALSE]

\* The file a completed write leaves behind
Written(size, fmt, r) == [size |-> size, fmt |-> fmt, by |-> r, whole |-> TRUE]

\* (originalSize - compressedSize) / originalSize * 100
Savings(originalSize, compressedSize) ==
    IF originalSize # 0
    THEN [finite |-> TRUE, num |-> (originalSize - compressedSize) * 100, den |-> originalSize]
    ELSE [finite |-> FALSE, num |-> 0 - compressedSize, den |-> 0]

\* savings.toFixed(2), in hundredths: the nearest, a tie away from zero
ToFixed2(x) ==
    LET n == x.num * 100
        d == x.den
    IN  IF n >= 0 THEN (2 * n + d) \div (2 * d)
        ELSE 0 - ((2 * (0 - n) + d) \div (2 * d))

\* The savings as a share of both sizes together
SavingsPercentOfTotal(originalSize, compressedSize) ==
    Num(ToFixed2([finite |-> TRUE, num |-> (originalSize - compressedSize) * 100,
                  den |-> originalSize + compressedSize + 1]))

\* The size of the saving, its sign dropped
SavingsPercentUnsigned(originalSize, compressedSize) ==
    LET h == ToFixed2(Savings(originalSize, compressedSize))
    IN  Num(IF h < 0 THEN 0 - h ELSE h)

\* parseFloat(savings.toFixed(2)): a number of hundredths of a percent, or
\* NaN / -Infinity when originalSize is 0
SavingsPercent(originalSize, compressedSize) ==
    LET savings == Savings(originalSize, compressedSize)
    IN  IF savings.finite THEN Num(ToFixed2(savings))
        ELSE IF savings.num = 0 THEN <<"NaN">> ELSE <<"-Infinity">>

(***************************************************************************)
(* POST /api/upload                                                        *)
(***************************************************************************)
\* The switch with the png case taking the level's quality
EncoderForPngQuality(extension, quality) ==
    CASE extension = Str("jpg") -> [fmt |-> "jpeg", opt |-> "quality", val |-> quality]
      [] extension = Str("png") -> [fmt |-> "png", opt |-> "quality", val |-> quality]
      [] extension = Str("webp") -> [fmt |-> "webp", opt |-> "quality", val |-> quality]
      [] OTHER -> NoEnc

\* The switch without its webp case
EncoderForNoWebp(extension, quality) ==
    CASE extension = Str("jpg") -> [fmt |-> "jpeg", opt |-> "quality", val |-> quality]
      [] extension = Str("png") -> [fmt |-> "png", opt |-> "compressionLevel", val |-> Num(PngCompressionLevel)]
      [] OTHER -> NoEnc

\* The sharp encoder call chosen by switch (extension)
EncoderFor(extension, quality) ==
    CASE extension = Str("jpg") -> [fmt |-> "jpeg", opt |-> "quality", val |-> quality]
      [] extension = Str("png") -> [fmt |-> "png", opt |-> "compressionLevel", val |-> Num(PngCompressionLevel)]
      [] extension = Str("webp") -> [fmt |-> "webp", opt |-> "quality", val |-> quality]
      [] OTHER -> NoEnc

\* What sharp(file.buffer).metadata() can do with the uploaded bytes: an
\* empty buffer is refused
ProbeOutcomes(in) == IF in.size = 0 THEN {"throws"} ELSE {"ok", "nodims", "throws"}

\* toFile() without its own try/catch: the error reaches the outer catch
SharpErrorRespUncaught == ErrorResp(500, "Image processing failed")

\* catch (sharpError) around pipeline.toFile()
SharpErrorResp == ErrorResp(500, "Compression failed")

\* The handler's outer catch (error)
UploadCatch(code) ==
    IF code = "LIMIT_FILE_SIZE"
    THEN ErrorResp(400, "File too large")
    ELSE ErrorResp(500, "Image processing failed")

\* if (!metadata.width || !metadata.height)
InvalidImageResp == ErrorResp(400, "Invalid image")

\* multer, the handler up to Date.now() and the call of metadata()
UploadStart(r) ==
    /\ MayArrive(r)
    /\ \E in \in ImageInputs :
       LET rq == [IdleReq EXCEPT !.ep = "upload", !.in = in]
           m == Multer(in, "image")
           extension == Lookup(extMap, in.mime)
       IN  IF m \notin {"ok", "nofile"}
           THEN Finish(r, rq, ErrorMiddleware(m)) /\ UNCHANGED clock
           ELSE IF m = "nofile"
           THEN Finish(r, rq, ErrorResp(400, "No image uploaded")) /\ UNCHANGED clock
           ELSE IF ~Truthy(extension)
           THEN Finish(r, rq, ErrorResp(400, "Unsupported format")) /\ UNCHANGED clock
           ELSE \E timestamp \in DateNow :
                  /\ clock' = timestamp
                  /\ reqs' = [reqs EXCEPT ![r] =
                        [rq EXCEPT !.pc = "probe",
                                   !.ts = timestamp,
                                   !.extension = extension,
                                   !.filename = FileName(timestamp, extension[2]),
                                   !.quality = Prop(getQualitySettings(QueryLevel(in.level)), "quality")]]
    /\ UNCHANGED <<disk, browser>>

\* metadata() settles, the pipeline is built and toFile() writes the output
UploadEncode(r) ==
    /\ reqs[r].pc = "probe"
    /\ LET rq == reqs[r]
           enc == EncoderFor(rq.extension, rq.quality)
           outputPath == PathJoin(UploadsDir, <<rq.filename>>)
       IN \E probe \in ProbeOutcomes(rq.in) :
            LET pq == [rq EXCEPT !.probe = probe]
            IN  CASE probe = "throws" ->
                       /\ Finish(r, pq, UploadCatch("sharp"))
                       /\ UNCHANGED disk
                  [] probe = "nodims" ->
                       /\ Finish(r, pq, InvalidImageResp)
                       /\ UNCHANGED disk
                  [] probe = "ok" /\ enc = NoEnc ->
                       /\ Finish(r, pq, ErrorResp(400, "Unsupported format"))
                       /\ UNCHANGED disk
                  [] OTHER ->
                       \* toFile() rejects before the output file is opened
                       \/ /\ Finish(r, [pq EXCEPT !.enc = enc], SharpErrorResp)
                          /\ UNCHANGED disk
                       \* toFile() rejects while the output is being written
                       \/ /\ Finish(r, [pq EXCEPT !.enc = enc], SharpErrorResp)
                          /\ disk' = Write(disk, outputPath, Truncated(enc.fmt, r))
                       \/ \E size \in 1..MaxSize :
                            /\ reqs' = [reqs EXCEPT ![r] = [pq EXCEPT !.pc = "stat", !.enc = enc, !.wrote = TRUE, !.wroteSize = size]]
                            /\ disk' = Write(disk, outputPath, Written(size, enc.fmt, r))
    /\ UNCHANGED <<clock, browser>>

\* fs.stat(outputPath), the format check and the response
UploadStat(r) ==
    /\ reqs[r].pc = "stat"
    /\ reqs[r].ep = "upload"
    /\ LET rq == reqs[r]
           in == rq.in
           outputPath == PathJoin(UploadsDir, <<rq.filename>>)
           finalExtension == LowerName(Tail(ExtName(rq.filename)))
           originalExtension == Lookup(extMap, in.mime)
       IN  \/ Finish(r, [rq EXCEPT !.stat = "throws"], ErrorResp(500, "File processing error"))
           \/ /\ outputPath \in DOMAIN disk
              /\ IF Str(finalExtension[1]) # originalExtension
                 THEN Finish(r, [rq EXCEPT !.stat = "ok"], ErrorResp(500, "Format preservation failed"))
                 ELSE Finish(r, [rq EXCEPT !.stat = "ok"],
                        [NoResp EXCEPT
                            !.status = 200,
                            !.filename = rq.filename,
                            !.originalSize = in.size,
                            !.compressedSize = disk[outputPath].size,
                            !.savingsPercent = SavingsPercent(in.size, disk[outputPath].size),
                            !.compressionLevel = QueryLevel(in.level),
                            !.compressionDescription =
                                Prop(getQualitySettings(QueryLevel(in.level)), "description"),
                            !.originalFormat = in.mime,
                            !.outputFormat = in.mime])
    /\ UNCHANGED <<disk, clock, browser>>

(***************************************************************************)
(* POST /api/pdf-compress                                                  *)
(***************************************************************************)
\* switch (level): the options handed to pdfDoc.save()
\* The options with the high branch a copy of the medium one
CompressionOptionsFlat(level) ==
    CASE level = "low" ->
            {<<"useObjectStreams", TRUE>>, <<"addDefaultPage", FALSE>>}
      [] level \in {"medium", "high"} ->
            {<<"useObjectStreams", TRUE>>, <<"addDefaultPage", FALSE>>, <<"subset", TRUE>>}
      [] OTHER ->
            {<<"useObjectStreams", TRUE>>, <<"addDefaultPage", FALSE>>}

\* An options object is the set of its <<key, value>> pairs.
CompressionOptions(level) ==
    CASE level = "low" ->
            {<<"useObjectStreams", TRUE>>, <<"addDefaultPage", FALSE>>}
      [] level = "medium" ->
            {<<"useObjectStreams", TRUE>>, <<"addDefaultPage", FALSE>>, <<"subset", TRUE>>}
      [] level = "high" ->
            {<<"useObjectStreams", TRUE>>, <<"addDefaultPage", FALSE>>, <<"subset", TRUE>>,
             <<"compress", TRUE>>}
      [] OTHER ->
            {<<"useObjectStreams", TRUE>>, <<"addDefaultPage", FALSE>>}

\* The handler's catch (error)
PdfCatch == ErrorResp(500, "PDF processing failed")

\* multer, the handler up to Date.now() and the call of PDFDocument.load()
PdfStart(r) ==
    /\ MayArrive(r)
    /\ \E in \in PdfInputs :
       LET rq == [IdleReq EXCEPT !.ep = "pdf-compress", !.in = in]
           m == Multer(in, "pdf")
       IN  IF m \notin {"ok", "nofile"}
           THEN Finish(r, rq, ErrorMiddleware(m)) /\ UNCHANGED clock
           ELSE IF m = "nofile"
           THEN Finish(r, rq, ErrorResp(400, "No PDF uploaded")) /\ UNCHANGED clock
           ELSE IF in.mime # "application/pdf"
           THEN Finish(r, rq, ErrorResp(400, "Invalid file type")) /\ UNCHANGED clock
           ELSE \E timestamp \in DateNow :
                  /\ clock' = timestamp
                  /\ reqs' = [reqs EXCEPT ![r] =
                        [rq EXCEPT !.pc = "load",
                                   !.ts = timestamp,
                                   !.filename = FileName(timestamp, "pdf")]]
    /\ UNCHANGED <<disk, browser>>

\* PDFDocument.load(), pdfDoc.save(compressionOptions) and fs.writeFile()
PdfSave(r) ==
    /\ reqs[r].pc = "load"
    /\ LET rq == [reqs[r] EXCEPT !.loaded = TRUE]
           level == QueryLevel(rq.in.level)
           outputPath == PathJoin(UploadsDir, <<rq.filename>>)
       \* load() or save() throws
       IN  \/ /\ Finish(r, rq, PdfCatch)
              /\ UNCHANGED disk
           \* writeFile() rejects after it has opened the output file
           \/ /\ rq.in.size > 0
              /\ Finish(r, [rq EXCEPT !.saveOpts = CompressionOptions(level)], PdfCatch)
              /\ disk' = Write(disk, outputPath, Truncated("pdf", r))
           \/ /\ rq.in.size > 0
              /\ \E size \in 1..MaxSize :
                    /\ reqs' = [reqs EXCEPT ![r] =
                            [rq EXCEPT !.pc = "stat", !.saveOpts = CompressionOptions(level), !.wrote = TRUE,
                                       !.wroteSize = size]]
                    /\ disk' = Write(disk, outputPath, Written(size, "pdf", r))
    /\ UNCHANGED <<clock, browser>>

\* fs.stat(outputPath) and the response
PdfStat(r) ==
    /\ reqs[r].pc = "stat"
    /\ reqs[r].ep = "pdf-compress"
    /\ LET rq == reqs[r]
           in == rq.in
           level == QueryLevel(in.level)
           outputPath == PathJoin(UploadsDir, <<rq.filename>>)
       IN  \/ Finish(r, [rq EXCEPT !.stat = "throws"], PdfCatch)
           \/ /\ outputPath \in DOMAIN disk
              /\ Finish(r, [rq EXCEPT !.stat = "ok"],
                    [NoResp EXCEPT
                        !.status = 200,
                        !.filename = rq.filename,
                        !.originalSize = in.size,
                        !.compressedSize = disk[outputPath].size,
                        !.savingsPercent = SavingsPercent(in.size, disk[outputPath].size),
                        !.compressionLevel = level,
                        !.compressionDescription = Prop(getQualitySettings(level), "description"),
                        !.originalFormat = "application/pdf",
                        !.outputFormat = "application/pdf"])
    /\ UNCHANGED <<disk, clock, browser>>

(***************************************************************************)
(* GET /api/uploads/:filename and GET /api/download/:filename              *)
(***************************************************************************)
\* The table without its webp entry
contentTypeMapNoWebp ==
    [e \in {<<".", "jpg">>, <<".", "jpeg">>, <<".", "png">>, <<".", "pdf">>} |->
        CASE e[2] \in {"jpg", "jpeg"} -> "image/jpeg"
          [] e[2] = "png" -> "image/png"
          [] e[2] = "pdf" -> "application/pdf"]

contentTypeMap ==
    [e \in {<<".", "jpg">>, <<".", "jpeg">>, <<".", "png">>, <<".", "webp">>, <<".", "pdf">>} |->
        CASE e[2] \in {"jpg", "jpeg"} -> "image/jpeg"
          [] e[2] = "png" -> "image/png"
          [] e[2] = "webp" -> "image/webp"
          [] e[2] = "pdf" -> "application/pdf"]

\* contentTypeMap[ext] || 'application/octet-stream'
ContentTypeOf(ext) == IF ext \in DOMAIN contentTypeMap THEN contentTypeMap[ext] ELSE "application/octet-stream"

\* The directories path.join can land on
Dirs == {<<>>, AppDir, UploadsDir}

\* The :filename parameters a client sends (express decodes %2F, so a
\* parameter may hold several segments): every file now in the uploads
\* directory, a name never produced, and parameters that climb out of it
Params ==
    {<<p[Len(p)]>> : p \in {q \in DOMAIN disk : SubSeq(q, 1, Len(q) - 1) = UploadsDir}}
    \cup {<<<<"compressed_", "0", ".", "PNG">>>>, <<DotDot, ServerJs>>, <<DotDot>>}

\* Both handlers: path.join, fs.access, the headers and res.sendFile
Serve(r, ep) ==
    /\ MayArrive(r)
    /\ \E filename \in Params :
       LET rq == [IdleReq EXCEPT !.ep = ep, !.param = filename]
           filePath == PathJoin(UploadsDir, filename)
           ext == LowerName(ExtName(filename[Len(filename)]))
       IN  IF filePath \in DOMAIN disk
           THEN Finish(r, rq,
                    [NoResp EXCEPT
                        !.status = 200,
                        !.contentType = ContentTypeOf(ext),
                        !.cacheControl = IF ep = "uploads" THEN "public, max-age=3600" ELSE "",
                        !.disposition = IF ep = "download" THEN filename ELSE <<>>,
                        !.sent = filePath])
           ELSE IF filePath \in Dirs
           \* fs.access succeeds on a directory; sendFile ends EISDIR and calls next()
           THEN Finish(r, rq, NotFoundHandler)
           ELSE Finish(r, rq, ErrorResp(404, IF ep = "uploads" THEN "Image not found" ELSE "File not found"))
    /\ UNCHANGED <<disk, clock, browser>>

(***************************************************************************)
(* POST /api/image-info and GET /api/health                                *)
(***************************************************************************)
\* image-info behind a multer that stores the upload in the uploads directory
ImageInfoPersisting(r) ==
    /\ MayArrive(r)
    /\ \E in \in InfoInputs :
       LET rq == [IdleReq EXCEPT !.ep = "image-info", !.in = in]
           m == Multer(in, "image")
       IN  IF m \notin {"ok", "nofile"}
           THEN Finish(r, rq, ErrorMiddleware(m)) /\ UNCHANGED disk
           ELSE IF m = "nofile"
           THEN Finish(r, rq, ErrorResp(400, "No image uploaded")) /\ UNCHANGED disk
           ELSE /\ Finish(r, [rq EXCEPT !.probe = "ok"], [NoResp EXCEPT !.status = 200])
                /\ disk' = Write(disk, PathJoin(UploadsDir, <<<<"upload_", ToString(r)>>>>),
                                 Written(in.size, "png", r))
    /\ UNCHANGED <<clock, browser>>

\* multer (memory storage), sharp metadata() and the response
ImageInfo(r) ==
    /\ MayArrive(r)
    /\ \E in \in InfoInputs :
       LET rq == [IdleReq EXCEPT !.ep = "image-info", !.in = in]
           m == Multer(in, "image")
       IN  IF m \notin {"ok", "nofile"}
           THEN Finish(r, rq, ErrorMiddleware(m))
           ELSE IF m = "nofile"
           THEN Finish(r, rq, ErrorResp(400, "No image uploaded"))
           ELSE \E probe \in ProbeOutcomes(in) :
                   IF probe = "throws"
                   THEN Finish(r, [rq EXCEPT !.probe = probe], ErrorResp(500, "Failed to get image information"))
                   ELSE Finish(r, [rq EXCEPT !.probe = probe], [NoResp EXCEPT !.status = 200])
    /\ UNCHANGED <<disk, clock, browser>>

Health(r) ==
    /\ MayArrive(r)
    /\ Finish(r, [IdleReq EXCEPT !.ep = "health"], [NoResp EXCEPT !.status = 200])
    /\ UNCHANGED <<disk, clock, browser>>

Next ==
    \E r \in Reqs :
        \/ UploadStart(r)
        \/ UploadEncode(r)
        \/ UploadStat(r)
        \/ PdfStart(r)
        \/ PdfSave(r)
        \/ PdfStat(r)
        \/ Serve(r, "uploads")
        \/ Serve(r, "download")
        \/ ImageInfo(r)
        \/ Health(r)

Spec == Init /\ [][Next]_vars

\* An awaited promise settles and the event loop resumes the handler that
\* awaits it: a handler that has started runs to its end.  Nothing obliges
\* a client to send a request.
LiveSpec ==
    /\ Spec
    /\ \A r \in Reqs :
          /\ WF_vars(UploadEncode(r))
          /\ WF_vars(UploadStat(r))
          /\ WF_vars(PdfSave(r))
          /\ WF_vars(PdfStat(r))

(***************************************************************************)
(* The browser.  Event handlers and callbacks run to completion one at a   *)
(* time; a handler that awaits is cut at its first await.  A callback of a *)
(* component that is no longer mounted sets nothing.                       *)
(***************************************************************************)
Routes == {"/", "/image-tools", "/pdf-tools"}
ProcessingTypes == {"compress", "word", "powerpoint", "jpeg"}
CompressionLevels == {"low", "medium", "high"}

FileInfo(n) == <<"file", n>>
Processed(type, file) == <<"processed", type, file>>

\* Buttons that are never disabled
DisabledNever(c) == FALSE

\* disabled={isProcessing}
Disabled(c) == c.isProcessing

\* setProgress(prev => prev >= 90 ? 90 : prev + step)
ProgressUpdater(prev, step) == IF prev >= 90 THEN 90 ELSE prev + step

\* One firing of a progressInterval: the updater, which clears the interval
\* when it finds 90 or more
Tick(c, iv) ==
    [c EXCEPT !.progress = ProgressUpdater(c.progress, iv.step),
              !.intervals = IF c.progress >= 90 THEN @ \ {iv} ELSE @]

\* clearInterval(progressInterval) by the operation that created it
ClearInterval(intervals, op) == {iv \in intervals : iv.id # op.id}

\* PDFResults renders its panel and reads uploadedPDF!.size
PDFResultsThrows(c) == c.processedFile # Null /\ ~c.isProcessing /\ c.uploadedPDF = Null

\* The results panel of ImageTools reads uploadedFile!.size
ImageResultsThrows(c) == c.compressedFile # Null /\ ~c.isProcessing /\ c.uploadedFile = Null

\* A render that throws takes the React tree down
PDFToolsMounted == route = "/pdf-tools" /\ ~PDFResultsThrows(pdfTools)
ImageToolsMounted == route = "/image-tools" /\ ~ImageResultsThrows(imageTools)

\* <Routes>: the component of the old route is unmounted, the new one
\* starts from its useState defaults
Navigate(to) ==
    /\ to # route
    /\ ~PDFResultsThrows(pdfTools)
    /\ ~ImageResultsThrows(imageTools)
    /\ route' = to
    /\ pdfTools' = PDFToolsInit
    /\ imageTools' = ImageToolsInit
    /\ UNCHANGED server

(***************************************************************************)
(* PDFTools                                                                *)
(***************************************************************************)
\* FileUpload (rendered while !uploadedPDF) hands a file to handleFileUpload,
\* which awaits file.arrayBuffer()
PDFTools_handleFileUpload ==
    /\ PDFToolsMounted
    /\ pdfTools.uploadedPDF = Null
    /\ pdfTools.files < MaxFiles
    /\ pdfTools' = [pdfTools EXCEPT !.files = @ + 1, !.loading = @ \cup {pdfTools.files + 1}]
    /\ UNCHANGED <<server, route, imageTools>>

\* handleFileUpload after its awaits: setUploadedPDF, in the try and in the catch
PDFTools_handleFileUploadResume ==
    /\ PDFToolsMounted
    /\ \E f \in pdfTools.loading :
          pdfTools' = [pdfTools EXCEPT !.uploadedPDF = FileInfo(f), !.loading = @ \ {f}]
    /\ UNCHANGED <<server, route, imageTools>>

\* A click on a tool button: processPDF, then handlePDFCompression up to its
\* first await or handleSimulatedConversion
PDFTools_processPDF(type) ==
    /\ PDFToolsMounted
    /\ pdfTools.uploadedPDF # Null
    /\ ~Disabled(pdfTools)
    /\ pdfTools.started < MaxOps
    /\ LET id == pdfTools.started + 1
       IN  pdfTools' = [pdfTools EXCEPT
                !.isProcessing = TRUE,
                !.processingType = type,
                !.progress = 0,
                !.started = id,
                !.ops = @ \cup {[id |-> id, type |-> type, file |-> pdfTools.uploadedPDF]},
                !.intervals = @ \cup {[id |-> id, step |-> IF type = "compress" THEN 10 ELSE 15]}]
    /\ UNCHANGED <<server, route, imageTools>>

\* A progressInterval fires
PDFTools_progressInterval ==
    /\ PDFToolsMounted
    /\ \E iv \in pdfTools.intervals : pdfTools' = Tick(pdfTools, iv)
    /\ UNCHANGED <<server, route, imageTools>>

\* handlePDFCompression after its awaits: the end of the try, or the catch
PDFTools_handlePDFCompressionResume ==
    /\ PDFToolsMounted
    /\ \E op \in pdfTools.ops :
          /\ op.type = "compress"
          /\ \/ pdfTools' = [pdfTools EXCEPT
                    !.processedFile = Processed(op.type, op.file),
                    !.intervals = ClearInterval(@, op),
                    !.progress = 100,
                    !.isProcessing = FALSE,
                    !.ops = @ \ {op}]
             \/ pdfTools' = [pdfTools EXCEPT
                    !.intervals = ClearInterval(@, op),
                    !.isProcessing = FALSE,
                    !.ops = @ \ {op}]
    /\ UNCHANGED <<server, route, imageTools>>

\* The setTimeout callback of handleSimulatedConversion
PDFTools_simulatedTimeout ==
    /\ PDFToolsMounted
    /\ \E op \in pdfTools.ops :
          /\ op.type # "compress"
          /\ pdfTools' = [pdfTools EXCEPT
                !.processedFile = Processed(op.type, op.file),
                !.progress = 100,
                !.isProcessing = FALSE,
                !.ops = @ \ {op}]
    /\ UNCHANGED <<server, route, imageTools>>

\* The remove button of PDFUploadSection (rendered while uploadedPDF)
PDFTools_handleRemoveFile ==
    /\ PDFToolsMounted
    /\ pdfTools.uploadedPDF # Null
    /\ pdfTools' = [pdfTools EXCEPT
            !.uploadedPDF = Null,
            !.processedFile = Null,
            !.progress = 0,
            !.processingType = "null"]
    /\ UNCHANGED <<server, route, imageTools>>

(***************************************************************************)
(* ImageTools                                                              *)
(***************************************************************************)
\* FileUpload (rendered while !uploadedFile) hands a file to handleFileUpload,
\* which sets img.src
ImageTools_handleFileUpload ==
    /\ ImageToolsMounted
    /\ imageTools.uploadedFile = Null
    /\ imageTools.files < MaxFiles
    /\ imageTools' = [imageTools EXCEPT !.files = @ + 1, !.loading = @ \cup {imageTools.files + 1}]
    /\ UNCHANGED <<server, route, pdfTools>>

\* img.onload
ImageTools_onload ==
    /\ ImageToolsMounted
    /\ \E f \in imageTools.loading :
          imageTools' = [imageTools EXCEPT !.uploadedFile = FileInfo(f), !.loading = @ \ {f}]
    /\ UNCHANGED <<server, route, pdfTools>>

\* A click on a level button (rendered while uploadedFile)
ImageTools_setCompressionLevel(level) ==
    /\ ImageToolsMounted
    /\ imageTools.uploadedFile # Null
    /\ level # imageTools.compressionLevel
    /\ imageTools' = [imageTools EXCEPT !.compressionLevel = level]
    /\ UNCHANGED <<server, route, pdfTools>>

\* A click on the process button: compressImage up to await fetch(...)
ImageTools_compressImage ==
    /\ ImageToolsMounted
    /\ imageTools.uploadedFile # Null
    /\ ~Disabled(imageTools)
    /\ imageTools.started < MaxOps
    /\ LET id == imageTools.started + 1
       IN  imageTools' = [imageTools EXCEPT
                !.isProcessing = TRUE,
                !.progress = 0,
                !.started = id,
                !.ops = @ \cup {[id |-> id, type |-> "compress", file |-> imageTools.uploadedFile]},
                !.intervals = @ \cup {[id |-> id, step |-> 10]}]
    /\ UNCHANGED <<server, route, pdfTools>>

\* A progressInterval fires
ImageTools_progressInterval ==
    /\ ImageToolsMounted
    /\ \E iv \in imageTools.intervals : imageTools' = Tick(imageTools, iv)
    /\ UNCHANGED <<server, route, pdfTools>>

\* compressImage after its awaits: the end of the try (response.ok), or the
\* catch (a rejected fetch, or a response that is not ok)
ImageTools_compressImageResume ==
    /\ ImageToolsMounted
    /\ \E op \in imageTools.ops :
          \/ imageTools' = [imageTools EXCEPT
                !.compressedFile = Processed(op.type, op.file),
                !.intervals = ClearInterval(@, op),
                !.progress = 100,
                !.isProcessing = FALSE,
                !.ops = @ \ {op}]
          \/ imageTools' = [imageTools EXCEPT
                !.intervals = ClearInterval(@, op),
                !.isProcessing = FALSE,
                !.ops = @ \ {op}]
    /\ UNCHANGED <<server, route, pdfTools>>

\* The reset button with its results kept
ImageTools_resetKeepingResult ==
    /\ ImageToolsMounted
    /\ imageTools.compressedFile # Null
    /\ ~imageTools.isProcessing
    /\ imageTools' = [imageTools EXCEPT !.uploadedFile = Null, !.progress = 0]
    /\ UNCHANGED <<server, route, pdfTools>>

\* "Process Another Image" (rendered in the results panel:
\* compressedFile && !isProcessing)
ImageTools_reset ==
    /\ ImageToolsMounted
    /\ imageTools.compressedFile # Null
    /\ ~imageTools.isProcessing
    /\ imageTools' = [imageTools EXCEPT !.uploadedFile = Null, !.compressedFile = Null, !.progress = 0]
    /\ UNCHANGED <<server, route, pdfTools>>

BrowserNext ==
    \/ \E to \in Routes : Navigate(to)
    \/ PDFTools_handleFileUpload
    \/ PDFTools_handleFileUploadResume
    \/ \E type \in ProcessingTypes : PDFTools_processPDF(type)
    \/ PDFTools_progressInterval
    \/ PDFTools_handlePDFCompressionResume
    \/ PDFTools_simulatedTimeout
    \/ PDFTools_handleRemoveFile
    \/ ImageTools_handleFileUpload
    \/ ImageTools_onload
    \/ \E level \in CompressionLevels : ImageTools_setCompressionLevel(level)
    \/ ImageTools_compressImage
    \/ ImageTools_progressInterval
    \/ ImageTools_compressImageResume
    \/ ImageTools_reset

BrowserSpec == Init /\ [][BrowserNext]_vars

\* An awaited call settles and a timer that was set fires.  Nothing obliges
\* the user to click.
BrowserLiveSpec ==
    /\ BrowserSpec
    /\ WF_vars(PDFTools_handlePDFCompressionResume)
    /\ WF_vars(PDFTools_simulatedTimeout)
    /\ WF_vars(ImageTools_compressImageResume)

(***************************************************************************)
(* Properties.                                                             *)
(***************************************************************************)
Done(r) == reqs[r].pc = "done"
Answered(r, ep) == Done(r) /\ reqs[r].ep = ep
Succeeded(r, ep) == Answered(r, ep) /\ reqs[r].resp.status = 200

\* The file a request sent to an upload endpoint in that endpoint's field
Uploaded(r, ep) ==
    /\ Answered(r, ep)
    /\ reqs[r].in.file
    /\ reqs[r].in.field = (IF ep = "pdf-compress" THEN "pdf" ELSE "image")

\* toFile() was called and threw
EncodeFailed(r) == Answered(r, "upload") /\ reqs[r].enc # NoEnc /\ ~reqs[r].wrote

LastToken(name) == name[Len(name)]
InUploads(path) == Len(path) = Len(UploadsDir) + 1 /\ SubSeq(path, 1, Len(UploadsDir)) = UploadsDir

MimeExt(m) ==
    CASE m = "image/jpeg" -> "jpg"
      [] m = "image/png" -> "png"
      [] m = "image/webp" -> "webp"
      [] OTHER -> "none"

MimeFormat(m) ==
    CASE m = "image/jpeg" -> "jpeg"
      [] m = "image/png" -> "png"
      [] m = "image/webp" -> "webp"
      [] OTHER -> "none"

C3_UnsupportedTypeIs400 ==
    \A r \in Reqs :
        (Uploaded(r, "upload") /\ reqs[r].in.mime \notin {"image/jpeg", "image/png", "image/webp"}) =>
            /\ reqs[r].resp.status = 400
            /\ ~reqs[r].wrote
            /\ \A p \in DOMAIN disk : disk[p].by # r

\* C4: on POST /api/pdf-compress a file whose declared type is not
\* application/pdf is answered 400, the PDF codec is not invoked and no file
\* is written.
C4_NonPdfIs400 ==
    \A r \in Reqs :
        (Uploaded(r, "pdf-compress") /\ reqs[r].in.mime # "application/pdf") =>
            /\ reqs[r].resp.status = 400
            /\ ~reqs[r].loaded
            /\ ~reqs[r].wrote
            /\ \A p \in DOMAIN disk : disk[p].by # r

\* C5: on either upload endpoint a file larger than the 50 MB ceiling is
\* answered 400 "File too large"; the metadata probe, the image encoder and
\* the PDF loader are not invoked and no file is written.
C5_OversizeIs400 ==
    \A r \in Reqs :
        \A ep \in {"upload", "pdf-compress"} :
            (Uploaded(r, ep) /\ reqs[r].in.size > 50 * 1024 * 1024) =>
                /\ reqs[r].resp.status = 400
                /\ reqs[r].resp.error = "File too large"
                /\ reqs[r].probe = "none"
                /\ reqs[r].enc = NoEnc
                /\ ~reqs[r].loaded
                /\ ~reqs[r].wrote

\* C6: on POST /api/upload with an accepted type, whenever the metadata
\* probe yields no width and height, whether it returns metadata without
\* them or fails on the data, the answer is 400 "Invalid image", the encoder
\* is not invoked and no file is written.
C6_UnreadableIs400 ==
    \A r \in Reqs :
        (Answered(r, "upload") /\ reqs[r].probe \in {"nodims", "throws"}) =>
            /\ reqs[r].resp.status = 400
            /\ reqs[r].resp.error = "Invalid image"
            /\ reqs[r].enc = NoEnc
            /\ ~reqs[r].wrote

C8_OnlyArtifactsServed ==
    \A r \in Reqs :
        (Answered(r, "uploads") \/ Answered(r, "download")) =>
            /\ ~(Len(reqs[r].param) = 1 /\ UploadsDir \o reqs[r].param \in DOMAIN disk)
                    => reqs[r].resp.status = 404
            /\ reqs[r].resp.status = 200 => InUploads(reqs[r].resp.sent)

\* C9: getQualitySettings returns the fixed entry for low, medium and high
\* and the medium entry (quality 75, "Balanced compression and quality") for
\* every other level string, names such as "constructor" included; the
\* quality is always a number and the description always a string.
C9_UnknownLevelIsMedium ==
    \A r \in Reqs :
        LET level == QueryLevel(reqs[r].in.level)
            known == level \in {"low", "medium", "high"}
        IN  /\ (reqs[r].ep = "upload" /\ reqs[r].pc \in {"probe", "stat"}) =>
                /\ reqs[r].quality[1] = "number"
                /\ ~known => reqs[r].quality = Num(75)
                /\ level = "low" => reqs[r].quality = Num(90)
                /\ level = "medium" => reqs[r].quality = Num(75)
                /\ level = "high" => reqs[r].quality = Num(60)
            /\ (Succeeded(r, "upload") \/ Succeeded(r, "pdf-compress")) =>
                /\ reqs[r].resp.compressionDescription[1] = "string"
                /\ ~known => reqs[r].resp.compressionDescription = Str("Balanced compression and quality")

\* C10: the quality applied per compression level is low = 90, medium = 70,
\* high = 50.
C10_ReadmeQualities ==
    \A r \in Reqs :
        (reqs[r].ep = "upload" /\ reqs[r].enc.opt = "quality") =>
            /\ reqs[r].in.level = "low" => reqs[r].enc.val = Num(90)
            /\ reqs[r].in.level = "medium" => reqs[r].enc.val = Num(70)
            /\ reqs[r].in.level = "high" => reqs[r].enc.val = Num(50)

UploadEndpoints == {"upload", "pdf-compress"}
KnownLevels == {"low", "medium", "high"}
Medium == qualityMap["medium"][2]
ArtifactPath(r) == UploadsDir \o <<reqs[r].resp.filename>>
Abs(n) == IF n < 0 THEN 0 - n ELSE n

\* C11: on POST /api/upload a request whose level is not low, medium or
\* high behaves as the same request with level=medium does: the encoder gets
\* medium's quality and the response reports compressionLevel "medium" and
\* medium's compressionDescription.
C11_UnknownLevelActsAsMedium ==
    \A r \in Reqs :
        (reqs[r].ep = "upload" /\ reqs[r].in.level \notin KnownLevels) =>
            /\ reqs[r].enc.opt = "quality" => reqs[r].enc.val = Medium.quality
            /\ Succeeded(r, "upload") =>
                /\ reqs[r].resp.compressionLevel = "medium"
                /\ reqs[r].resp.compressionDescription = Medium.description

\* C12: on POST /api/pdf-compress a request with no level, or with a level
\* that is not low, medium or high, is saved with medium's option set
\* (object streams and font subsetting) and reports medium's description.
C12_PdfUnknownLevelActsAsMedium ==
    \A r \in Reqs :
        (reqs[r].ep = "pdf-compress" /\ reqs[r].in.level \notin KnownLevels) =>
            /\ reqs[r].saveOpts # {} =>
                /\ reqs[r].saveOpts = CompressionOptions("medium")
                /\ <<"subset", TRUE>> \in reqs[r].saveOpts
            /\ Succeeded(r, "pdf-compress") =>
                reqs[r].resp.compressionDescription = Medium.description

\* C13: in every success response of either upload endpoint savingsPercent
\* is (originalSize - compressedSize) / originalSize * 100 rounded to the
\* nearest hundredth, originalSize being the uploaded byte count and
\* compressedSize the size of the file at the output path; originalSize is
\* not 0 and the value is a finite number.
C13_SavingsPercent ==
    \A r \in Reqs :
        \A ep \in UploadEndpoints :
            Succeeded(r, ep) =>
                LET o == reqs[r].resp.originalSize
                    c == reqs[r].resp.compressedSize
                    sp == reqs[r].resp.savingsPercent
                IN  /\ o = reqs[r].in.size
                    /\ o # 0
                    /\ sp[1] = "number"
                    /\ 2 * Abs(sp[2] * o - (o - c) * 10000) <= o
                    /\ (ArtifactPath(r) \in DOMAIN disk /\ disk[ArtifactPath(r)].by = r) =>
                            c = disk[ArtifactPath(r)].size

\* C13 witness: a success whose savings (2/3) had to be rounded: 66.67
C13_Witness ==
    \E r \in Reqs :
        /\ Succeeded(r, "upload") \/ Succeeded(r, "pdf-compress")
        /\ reqs[r].resp.originalSize = 3
        /\ reqs[r].resp.compressedSize = 1
        /\ reqs[r].resp.savingsPercent = Num(6667)

\* C14: no partial success: an answered upload request either got 200 and
\* its artifact is in the uploads directory, or got an error and has
\* created or changed no file there; the one exception is a failed fs.stat
\* after a completed write, answered 500 with the file left in place.
C14_NoPartialSuccess ==
    \A r \in Reqs :
        \A ep \in UploadEndpoints :
            Answered(r, ep) =>
                \/ reqs[r].resp.status = 200 /\ ArtifactPath(r) \in DOMAIN disk
                \/ reqs[r].resp.status # 200 /\ \A p \in DOMAIN disk : disk[p].by # r
                \/ reqs[r].resp.status = 500 /\ reqs[r].wrote /\ reqs[r].stat = "throws"

\* C15: every successful upload adds one new file of its own: the artifacts
\* of the successful requests are as many as the requests, and each is
\* still the file its request wrote.
C15_OneNewFilePerSuccess ==
    LET ok == {r \in Reqs : Succeeded(r, "upload") \/ Succeeded(r, "pdf-compress")}
    IN  /\ Cardinality({ArtifactPath(r) : r \in ok}) = Cardinality(ok)
        /\ \A r \in ok :
              /\ ArtifactPath(r) \in DOMAIN disk
              /\ disk[ArtifactPath(r)].by = r

\* C16: a compression that does not reduce the size is not an error: on
\* both upload endpoints a request whose write and fs.stat succeeded is
\* answered 200 whatever the sizes, and when compressedSize >= originalSize
\* the artifact is in place and savingsPercent is zero or negative.
C16_NoReductionIsSuccess ==
    \A r \in Reqs :
        \A ep \in UploadEndpoints :
            (Answered(r, ep) /\ reqs[r].stat = "ok") =>
                /\ reqs[r].resp.status = 200
                /\ reqs[r].resp.compressedSize >= reqs[r].resp.originalSize =>
                    /\ ArtifactPath(r) \in DOMAIN disk
                    /\ reqs[r].resp.savingsPercent[1] = "number"
                    /\ reqs[r].resp.savingsPercent[2] <= 0
                    /\ reqs[r].resp.compressedSize > reqs[r].resp.originalSize =>
                            reqs[r].resp.savingsPercent[2] < 0

\* C16 witness: a PDF that grew (1 byte to 2) was answered 200 with -100 %
C16_Witness ==
    \E r \in Reqs :
        /\ Succeeded(r, "pdf-compress")
        /\ reqs[r].resp.originalSize = 1
        /\ reqs[r].resp.compressedSize = 2
        /\ reqs[r].resp.savingsPercent = Num(-10000)
        /\ ArtifactPath(r) \in DOMAIN disk

\* The handler's position as a number: a handler only moves forward
Rank(pc) ==
    CASE pc = "idle" -> 0
      [] pc \in {"probe", "load"} -> 1
      [] pc = "stat" -> 2
      [] pc = "done" -> 3

\* C17: every request to any endpoint receives exactly one response: a
\* request that has arrived is eventually answered, a response is never sent
\* twice, a handler that has returned has sent one, and no step of a handler
\* is taken again after it was taken (no retry).
C17_ExactlyOneResponse ==
    /\ [](\A r \in Reqs : reqs[r].responses = (IF Done(r) THEN 1 ELSE 0))
    /\ [][\A r \in Reqs :
            \/ reqs'[r] = reqs[r]
            \/ /\ Rank(reqs'[r].pc) > Rank(reqs[r].pc)
               /\ reqs'[r].responses <= 1]_vars
    /\ \A r \in Reqs : (reqs[r].pc # "idle") ~> Done(r)

\* C17 witness: one request failed at fs.stat after its write, the other was
\* refused by the error middleware, and each has its one response
C17_Witness ==
    \E r1, r2 \in Reqs :
        /\ Answered(r1, "upload") /\ reqs[r1].stat = "throws"
        /\ reqs[r1].resp.status = 500 /\ reqs[r1].responses = 1
        /\ Answered(r2, "pdf-compress") /\ reqs[r2].resp.error = "Internal server error"
        /\ reqs[r2].responses = 1

ReadOnlyEndpoints == {"uploads", "download", "image-info", "health"}

\* C18: the preview, download, image-info and health endpoints never
\* create, change or delete a file, whatever their outcome: a step that
\* handles a request to one of them leaves the disk as it was.
C18_ReadOnlyEndpoints ==
    [][\A r \in Reqs :
            (reqs[r].pc = "idle" /\ reqs'[r].pc # "idle" /\ reqs'[r].ep \in ReadOnlyEndpoints)
                => disk' = disk]_vars

\* C18 witness: an artifact was downloaded, and it is still the file its
\* upload wrote
C18_Witness ==
    \E r1, r2 \in Reqs :
        /\ Succeeded(r1, "upload")
        /\ Succeeded(r2, "download")
        /\ reqs[r2].resp.sent = ArtifactPath(r1)
        /\ disk[ArtifactPath(r1)] = Written(reqs[r1].resp.compressedSize, reqs[r1].enc.fmt, r1)

\* C19: the PDF option sets escalate strictly with the level: low's
\* options are a proper subset of medium's, which adds font subsetting,
\* medium's a proper subset of high's, which adds stream compaction;
\* object-stream grouping is on at every level, and these are the options
\* pdfDoc.save() is called with.
C19_PdfOptionsEscalate ==
    /\ CompressionOptions("low") \subseteq CompressionOptions("medium")
    /\ CompressionOptions("medium") \ CompressionOptions("low") = {<<"subset", TRUE>>}
    /\ CompressionOptions("medium") \subseteq CompressionOptions("high")
    /\ CompressionOptions("high") \ CompressionOptions("medium") = {<<"compress", TRUE>>}
    /\ \A r \in Reqs :
          (reqs[r].ep = "pdf-compress" /\ reqs[r].in.level \in KnownLevels /\ reqs[r].saveOpts # {}) =>
              /\ reqs[r].saveOpts = CompressionOptions(reqs[r].in.level)
              /\ <<"useObjectStreams", TRUE>> \in reqs[r].saveOpts
              /\ reqs[r].in.level # "low" => <<"subset", TRUE>> \in reqs[r].saveOpts
              /\ (reqs[r].in.level = "high") <=> (<<"compress", TRUE>> \in reqs[r].saveOpts)

\* C19 witness: a PDF compressed at level high was saved with all three
\* optimisations
C19_Witness ==
    \E r \in Reqs :
        /\ Succeeded(r, "pdf-compress")
        /\ reqs[r].in.level = "high"
        /\ {<<"useObjectStreams", TRUE>>, <<"subset", TRUE>>, <<"compress", TRUE>>} \subseteq reqs[r].saveOpts

InFlight(r) == reqs[r].pc \in {"probe", "load", "stat"}
OutputExt(r) == IF reqs[r].ep = "upload" THEN MimeExt(reqs[r].in.mime) ELSE "pdf"

\* C20: artifact names are compressed_<epoch-ms>.<ext>, the timestamp being
\* read once, before the codec runs; two upload requests have the same
\* output path exactly when they read the same timestamp and map to the same
\* extension; a request whose path is already taken goes on regardless, and
\* the path holds one file, the one written last.
C20_TimestampNames ==
    /\ \A r \in Reqs :
          InFlight(r) =>
              /\ reqs[r].ts \in 1..MaxClock
              /\ reqs[r].ts <= clock
              /\ reqs[r].filename = <<"compressed_", ToString(reqs[r].ts), ".", OutputExt(r)>>
              /\ reqs[r].pc \in {"probe", "load"} =>
                    (reqs[r].probe = "none" /\ reqs[r].enc = NoEnc /\ ~reqs[r].loaded /\ ~reqs[r].wrote)
              /\ reqs[r].pc = "stat" =>
                    /\ UploadsDir \o <<reqs[r].filename>> \in DOMAIN disk
                    /\ disk[UploadsDir \o <<reqs[r].filename>>].by \in Reqs
    /\ \A r1, r2 \in Reqs :
          (InFlight(r1) /\ InFlight(r2)) =>
              ((reqs[r1].filename = reqs[r2].filename)
                  <=> (reqs[r1].ts = reqs[r2].ts /\ OutputExt(r1) = OutputExt(r2)))
    /\ \A r \in Reqs :
          \A ep \in UploadEndpoints :
              Succeeded(r, ep) => ArtifactPath(r) \in DOMAIN disk

\* C20 witness: two requests read the same timestamp, both were answered
\* 200 with the same file name, and the file is the second one's
C20_Witness ==
    \E r1, r2 \in Reqs :
        /\ r1 # r2
        /\ Succeeded(r1, "upload") /\ Succeeded(r2, "upload")
        /\ reqs[r1].resp.filename = reqs[r2].resp.filename
        /\ disk[ArtifactPath(r1)].by = r2

ServeEndpoints == {"uploads", "download"}

\* C21: artifacts are never deleted: no step removes a file, so the set of
\* file names in the uploads directory only grows; the artifact of every
\* success response stays on disk, and a preview or download request for a
\* file that is on disk is answered 200.
C21_ArtifactsNeverDeleted ==
    /\ [][DOMAIN disk \subseteq DOMAIN disk']_vars
    /\ [](\A r \in Reqs : \A ep \in UploadEndpoints :
            Succeeded(r, ep) => ArtifactPath(r) \in DOMAIN disk)
    /\ [][\A r \in Reqs :
            (/\ reqs[r].pc = "idle"
             /\ reqs'[r].ep \in ServeEndpoints
             /\ PathJoin(UploadsDir, reqs'[r].param) \in DOMAIN disk)
                => reqs'[r].resp.status = 200]_vars

\* C21 witness: a compressed PDF was previewed with 200 after its success
\* response, and is on disk
C21_Witness ==
    \E r1, r2 \in Reqs :
        /\ Succeeded(r1, "pdf-compress")
        /\ Succeeded(r2, "uploads")
        /\ reqs[r2].param = <<reqs[r1].resp.filename>>
        /\ ArtifactPath(r1) \in DOMAIN disk

QualityOf(level) ==
    CASE level = "low" -> Num(90)
      [] level = "medium" -> Num(75)
      [] level = "high" -> Num(60)

\* C22: the level changes the encode parameters only for JPEG and WebP,
\* whose quality is the policy value of the level; the PNG encoder is always
\* called with compression level 9, so PNG uploads with different levels
\* have identical encode parameters, while the response still reports each
\* request's own compressionLevel and compressionDescription.
C22_LevelOnlyForJpegAndWebp ==
    /\ \A r \in Reqs :
          (reqs[r].ep = "upload" /\ reqs[r].enc # NoEnc) =>
              LET level == QueryLevel(reqs[r].in.level)
              IN  /\ reqs[r].in.mime = "image/png" =>
                        reqs[r].enc = [fmt |-> "png", opt |-> "compressionLevel", val |-> Num(9)]
                  /\ reqs[r].in.mime \in {"image/jpeg", "image/webp"} =>
                        /\ reqs[r].enc.opt = "quality"
                        /\ level \in KnownLevels => reqs[r].enc.val = QualityOf(level)
                  /\ Succeeded(r, "upload") =>
                        /\ reqs[r].resp.compressionLevel = level
                        /\ level \in KnownLevels =>
                              reqs[r].resp.compressionDescription = qualityMap[level][2].description
    /\ \A r1, r2 \in Reqs :
          (/\ reqs[r1].ep = "upload" /\ reqs[r1].in.mime = "image/png" /\ reqs[r1].enc # NoEnc
           /\ reqs[r2].ep = "upload" /\ reqs[r2].in.mime = "image/png" /\ reqs[r2].enc # NoEnc)
              => reqs[r1].enc = reqs[r2].enc

\* C22 witness: two PNG uploads with levels medium and high were encoded
\* with the same parameters and answered with different level and
\* description
C22_Witness ==
    \E r1, r2 \in Reqs :
        /\ Succeeded(r1, "upload") /\ reqs[r1].in.mime = "image/png"
        /\ Succeeded(r2, "upload") /\ reqs[r2].in.mime = "image/png"
        /\ reqs[r1].in.level # reqs[r2].in.level
        /\ reqs[r1].enc = reqs[r2].enc
        /\ reqs[r1].resp.compressionLevel # reqs[r2].resp.compressionLevel
        /\ reqs[r1].resp.compressionDescription # reqs[r2].resp.compressionDescription

\* C23: content-type round trip: an artifact of a successful upload with
\* declared type m is served by the preview and by the download endpoint
\* with Content-Type m; the preview carries Cache-Control
\* "public, max-age=3600", the download a Content-Disposition naming the
\* file.
C23_ContentTypeRoundTrip ==
    \A r1, r2 \in Reqs :
        \A ep \in UploadEndpoints :
            (/\ Succeeded(r1, ep)
             /\ reqs[r2].ep \in ServeEndpoints /\ Done(r2)
             /\ reqs[r2].param = <<reqs[r1].resp.filename>>) =>
                /\ reqs[r2].resp.status = 200
                /\ reqs[r2].resp.sent = ArtifactPath(r1)
                /\ reqs[r2].resp.contentType = reqs[r1].in.mime
                /\ reqs[r1].in.mime \in {"image/jpeg", "image/png", "image/webp", "application/pdf"}
                /\ reqs[r2].ep = "uploads" => reqs[r2].resp.cacheControl = "public, max-age=3600"
                /\ reqs[r2].ep = "download" => reqs[r2].resp.disposition = <<reqs[r1].resp.filename>>

\* C23 witness: a WebP artifact was downloaded as image/webp
C23_Witness ==
    \E r1, r2 \in Reqs :
        /\ Succeeded(r1, "upload") /\ reqs[r1].in.mime = "image/webp"
        /\ Succeeded(r2, "download")
        /\ reqs[r2].param = <<reqs[r1].resp.filename>>
        /\ reqs[r2].resp.contentType = "image/webp"

\* C25: in every success response of an upload endpoint compressedSize is
\* the size of the file that request wrote, and it is the size of the file
\* at the response's previewUrl in every later state, under any
\* interleaving of uploads.
C25_CompressedSizeIsOwn ==
    \A r \in Reqs :
        \A ep \in UploadEndpoints :
            Succeeded(r, ep) =>
                /\ reqs[r].resp.compressedSize = reqs[r].wroteSize
                /\ ArtifactPath(r) \in DOMAIN disk
                /\ disk[ArtifactPath(r)].size = reqs[r].resp.compressedSize

\* C30: in the image upload handler the default branch of the encoder
\* switch is never taken and the format check after the write never fails:
\* a request that reaches them has extension jpg, png or webp, equal to its
\* type's extMap entry and to the extension of its file name, so 400
\* "Unsupported format" is only sent before the probe and 500 "Format
\* preservation failed" never.
C30_DeadBranches ==
    \A r \in Reqs :
        reqs[r].ep = "upload" =>
            /\ reqs[r].pc \in {"probe", "stat"} =>
                /\ reqs[r].extension \in {Str("jpg"), Str("png"), Str("webp")}
                /\ reqs[r].extension = extMap[reqs[r].in.mime]
                /\ Str(LastToken(reqs[r].filename)) = reqs[r].extension
                /\ EncoderFor(reqs[r].extension, reqs[r].quality) # NoEnc
            /\ reqs[r].resp.error # "Format preservation failed"
            /\ reqs[r].resp.error = "Unsupported format" => reqs[r].probe = "none"
            /\ reqs[r].probe = "ok" => reqs[r].enc # NoEnc
            /\ reqs[r].stat = "ok" => reqs[r].resp.status = 200

\* C30 witness: a WebP upload went through the switch and the format check
C30_Witness ==
    \E r \in Reqs :
        /\ Succeeded(r, "upload")
        /\ reqs[r].in.mime = "image/webp"
        /\ reqs[r].probe = "ok" /\ reqs[r].stat = "ok"
        /\ reqs[r].enc.fmt = "webp"

PDFState(c) == <<c.uploadedPDF, c.processedFile, c.progress, c.processingType, c.isProcessing>>

\* C24: PDFTools.handleRemoveFile resets the workflow: the step that runs it
\* leaves uploadedPDF and processedFile null, progress 0, processingType
\* null and the component not processing, also while an operation is in
\* flight; and afterwards, until the user selects a file, no callback of
\* the abandoned operation changes any of these.
C24_RemoveFileResets ==
    [][/\ (pdfTools.uploadedPDF # Null /\ pdfTools'.uploadedPDF = Null /\ route' = route) =>
            PDFState(pdfTools') = <<Null, Null, 0, "null", FALSE>>
       /\ (/\ pdfTools.uploadedPDF = Null /\ pdfTools'.uploadedPDF = Null
           /\ pdfTools'.loading = pdfTools.loading /\ route' = route) =>
            PDFState(pdfTools') = PDFState(pdfTools)]_vars

\* C26: in PDFTools, whenever processedFile is non-null and isProcessing is
\* false, uploadedPDF is non-null.
C26_ResultsHaveUpload ==
    (pdfTools.processedFile # Null /\ ~pdfTools.isProcessing) => pdfTools.uploadedPDF # Null

\* A step of a component in which only an interval fired: progress changed
\* and no handler or completion ran
TickOnly(old, new, oldFile, newFile) ==
    /\ route' = route
    /\ new.progress # old.progress
    /\ new.isProcessing = old.isProcessing
    /\ new.started = old.started
    /\ new.ops = old.ops
    /\ newFile = oldFile

\* C27: in ImageTools and PDFTools progress stays within 0..100, an
\* interval tick never raises it above 90, and once it is 100 no interval
\* tick changes it, in whatever order ticks and completions fire.
C27_ProgressBounds ==
    /\ [](pdfTools.progress \in 0..100 /\ imageTools.progress \in 0..100)
    /\ [][/\ TickOnly(pdfTools, pdfTools', pdfTools.uploadedPDF, pdfTools'.uploadedPDF) =>
                (pdfTools'.progress <= 90 /\ pdfTools.progress # 100)
          /\ TickOnly(imageTools, imageTools', imageTools.uploadedFile, imageTools'.uploadedFile) =>
                (imageTools'.progress <= 90 /\ imageTools.progress # 100)]_vars

\* C28: every operation started in ImageTools or PDFTools ends with
\* isProcessing false, whether it succeeds or fails; an operation starts
\* only while isProcessing is false, isProcessing is true exactly while an
\* operation is in flight, and at most one is in flight per component.
C28_OperationsEnd ==
    /\ [](/\ Cardinality(pdfTools.ops) <= 1
          /\ Cardinality(imageTools.ops) <= 1
          /\ pdfTools.isProcessing <=> pdfTools.ops # {}
          /\ imageTools.isProcessing <=> imageTools.ops # {})
    /\ [][/\ pdfTools'.started > pdfTools.started => ~pdfTools.isProcessing
          /\ imageTools'.started > imageTools.started => ~imageTools.isProcessing]_vars
    /\ pdfTools.isProcessing ~> ~pdfTools.isProcessing
    /\ imageTools.isProcessing ~> ~imageTools.isProcessing

\* C28 witness: the mounted component has started two operations, the
\* second has ended without a result, and the component is not processing
C28_Witness ==
    \/ /\ pdfTools.started = 2 /\ ~pdfTools.isProcessing /\ pdfTools.ops = {}
       /\ pdfTools.processedFile = Null /\ pdfTools.uploadedPDF # Null
    \/ /\ imageTools.started = 2 /\ ~imageTools.isProcessing /\ imageTools.ops = {}
       /\ imageTools.compressedFile = Null /\ imageTools.uploadedFile # Null

\* C29: in ImageTools, whenever compressedFile is non-null, uploadedFile is
\* non-null, for every sequence of uploads, level changes, compress clicks,
\* successes and failures of the request, and resets.
C29_CompressedHasUpload ==
    imageTools.compressedFile # Null => imageTools.uploadedFile # Null

\* C29 witness: after a reset a second image was uploaded and compressed
C29_Witness ==
    /\ imageTools.compressedFile = Processed("compress", FileInfo(2))
    /\ imageTools.uploadedFile = FileInfo(2)
    /\ ~imageTools.isProcessing
    /\ imageTools.started = 2

====
